---------------------------- MODULE Spec2Model ----------------------------
(***************************************************************************)
(* Model of the credentialed request engine of omnia_timeseries:           *)
(*   api.py          TimeseriesEnvironment, SanitizedApiClient,            *)
(*                   TimeseriesAPI                                         *)
(*   http_client.py  _request, HttpClient                                  *)
(* Strings are sequences of one-character strings, so that lower(),        *)
(* substring tests, rstrip and the regular expression \bml\b are computed  *)
(* character by character as Python computes them.                         *)
(***************************************************************************)
EXTENDS Integers, Sequences, FiniteSets, TLC

(***************************************************************************)
(* Bounds of the model.                                                    *)
(***************************************************************************)
\* longest generated resource id
MaxLen == 3
\* longest generated base url
MaxUrlLen == 2

(***************************************************************************)
(* Strings.                                                                *)
(***************************************************************************)
UpperCase == <<"A", "B", "C", "D", "E", "F", "G", "H", "I", "J", "K", "L", "M",
               "N", "O", "P", "Q", "R", "S", "T", "U", "V", "W", "X", "Y", "Z">>

LowerCase == <<"a", "b", "c", "d", "e", "f", "g", "h", "i", "j", "k", "l", "m",
               "n", "o", "p", "q", "r", "s", "t", "u", "v", "w", "x", "y", "z">>

Digits == {"0", "1", "2", "3", "4", "5", "6", "7", "8", "9"}

Range(f) == {f[i] : i \in DOMAIN f}

\* str.lower() on one character
LowerChar(ch) ==
    IF ch \in Range(UpperCase)
    THEN LowerCase[CHOOSE i \in DOMAIN UpperCase : UpperCase[i] = ch]
    ELSE ch

\* str.lower()
Lower(s) == [i \in DOMAIN s |-> LowerChar(s[i])]

\* the regular expression class \w
IsWordChar(ch) == ch \in Range(LowerCase) \cup Range(UpperCase) \cup Digits \cup {"_"}

\* Python's  sub in s
Contains(s, sub) ==
    \E i \in 0..(Len(s) - Len(sub)) : SubSeq(s, i + 1, i + Len(sub)) = sub

\* number of (possibly overlapping) places where sub occurs in s
Occurrences(s, sub) ==
    Cardinality({i \in 0..(Len(s) - Len(sub)) : SubSeq(s, i + 1, i + Len(sub)) = sub})

\* re.search(r'\bml\b', s): "ml" with a word boundary on each side
SearchWordMl(s) ==
    \E i \in 1..(Len(s) - 1) :
        /\ s[i] = "m"
        /\ s[i + 1] = "l"
        /\ (i = 1 \/ ~IsWordChar(s[i - 1]))
        /\ (i + 1 = Len(s) \/ ~IsWordChar(s[i + 2]))

\* removes one trailing slash only
RStripOneSlash(s) ==
    IF s # <<>> /\ s[Len(s)] = "/" THEN SubSeq(s, 1, Len(s) - 1) ELSE s

\* str.rstrip('/')
RECURSIVE RStripSlash(_)
RStripSlash(s) ==
    IF s # <<>> /\ s[Len(s)] = "/" THEN RStripSlash(SubSeq(s, 1, Len(s) - 1)) ELSE s

\* all strings over alphabet of length at most n
RECURSIVE Strs(_, _)
Strs(alphabet, n) ==
    IF n = 0 THEN {<<>>}
    ELSE LET shorter == Strs(alphabet, n - 1)
         IN  shorter \cup {Append(s, ch) : s \in shorter, ch \in alphabet}

(***************************************************************************)
(* String literals of the source.                                          *)
(***************************************************************************)
\* "https://management.azure.com"
ManagementUrl == <<"h", "t", "t", "p", "s", ":", "/", "/", "m", "a", "n", "a", "g", "e",
                   "m", "e", "n", "t", ".", "a", "z", "u", "r", "e", ".", "c", "o", "m">>

\* "/.default"
DefaultSuffix == <<"/", ".", "d", "e", "f", "a", "u", "l", "t">>

\* "https://management.azure.com/.default"
ManagementScope == ManagementUrl \o DefaultSuffix

\* "ml.azure.com"
MlHost == <<"m", "l", ".", "a", "z", "u", "r", "e", ".", "c", "o", "m">>

\* "ml"
Ml == <<"m", "l">>

(***************************************************************************)
(* Inputs.                                                                 *)
(***************************************************************************)
IdAlphabet == {"m", "l", "M", "h", "-", "_"}

NamedIds ==
    { <<"h", "t", "m", "l", "-", "a", "p", "p">>,
      <<"x", "m", "l", ".", "a", "z", "u", "r", "e", ".", "c", "o", "m">>,
      <<"M", "L", ".", "A", "z", "u", "r", "e", ".", "C", "o", "m", "/", "w", "s">>,
      <<"m", "y", "-", "m", "l", "-", "w", "o", "r", "k", "s", "p", "a", "c", "e">>,
      <<"3", "2", "f", "2", "a", "9", "0", "9", "-", "8", "a", "9", "8">>,
      ManagementUrl }

ResourceIds == Strs(IdAlphabet, MaxLen) \cup NamedIds

\* "ml/", "u/ml//" and "https://ml.azure.com/"
NamedUrls ==
    { <<"m", "l", "/">>,
      <<"u", "/", "m", "l", "/", "/">>,
      <<"h", "t", "t", "p", "s", ":", "/", "/", "m", "l", ".", "a", "z", "u", "r", "e",
        ".", "c", "o", "m", "/">> }

BaseUrls == Strs({"u", "/"}, MaxUrlLen) \cup NamedUrls

\* value of a field that has not been assigned yet
None == <<"<", "n", "o", "n", "e", ">">>

(***************************************************************************)
(* api.py                                                                  *)
(***************************************************************************)
\* the condition of the if in _sanitize_resource_id
AliasPattern(resource_id) ==
    SearchWordMl(Lower(resource_id)) \/ Contains(Lower(resource_id), MlHost)

SanitizeKeepingPath(resource_id) ==
    IF AliasPattern(resource_id) THEN ManagementUrl \o <<"/">> \o resource_id
    ELSE resource_id

SanitizeDoubleSuffix(resource_id) ==
    IF AliasPattern(resource_id) THEN ManagementScope ELSE resource_id

\* TimeseriesEnvironment._sanitize_resource_id and
\* SanitizedApiClient._sanitize_resource_id (the same body)
SanitizeResourceId(resource_id) ==
    IF AliasPattern(resource_id) THEN ManagementUrl ELSE resource_id

(***************************************************************************)
(* http_client.py: the scope chosen by HttpClient._get_access_token        *)
(***************************************************************************)
AuthEndpoint(resource_id) ==
    IF Contains(Lower(resource_id), Ml) THEN ManagementScope
    ELSE resource_id \o DefaultSuffix


(***************************************************************************)
(* JSON decoding (response.json()), for documents over the characters      *)
(*   { } [ ] " : ,  space, digits and letters                              *)
(* Values are tagged: int, str, list, dict.  A dict keeps the last value   *)
(* of a repeated key, as Python's decoder does.                            *)
(***************************************************************************)
DigitChars == <<"0", "1", "2", "3", "4", "5", "6", "7", "8", "9">>

DigitVal(ch) == (CHOOSE n \in DOMAIN DigitChars : DigitChars[n] = ch) - 1

JsonFail == [ok |-> FALSE, val |-> [t |-> "none"], next |-> 0]

JsonOk(val, next) == [ok |-> TRUE, val |-> val, next |-> next]

RECURSIVE SkipWs(_, _)
SkipWs(s, i) == IF i <= Len(s) /\ s[i] = " " THEN SkipWs(s, i + 1) ELSE i

\* digits from position i on, accumulated into n
RECURSIVE ScanDigits(_, _, _)
ScanDigits(s, i, n) ==
    IF i <= Len(s) /\ s[i] \in Digits
    THEN ScanDigits(s, i + 1, 10 * n + DigitVal(s[i]))
    ELSE JsonOk([t |-> "int", v |-> n], i)

\* a number: 0, or a non-zero digit followed by digits
ParseNumber(s, i) ==
    IF s[i] = "0" THEN JsonOk([t |-> "int", v |-> 0], i + 1)
    ELSE ScanDigits(s, i, 0)

\* a string starting at the quote at position i; no escapes in the alphabet
ParseString(s, i) ==
    LET closing == {j \in (i + 1)..Len(s) : s[j] = "\""}
    IN  IF closing = {} THEN JsonFail
        ELSE LET j == CHOOSE k \in closing : \A m \in closing : k <= m
             IN  JsonOk([t |-> "str", v |-> SubSeq(s, i + 1, j - 1)], j + 1)

DictPut(d, k, v) == [x \in DOMAIN d \cup {k} |-> IF x = k THEN v ELSE d[x]]

RECURSIVE ParseValue(_, _)
RECURSIVE ParseElements(_, _, _)
RECURSIVE ParseMembers(_, _, _)

\* the elements of a list, the first one starting at position i
ParseElements(s, i, acc) ==
    LET e == ParseValue(s, i)
        j == SkipWs(s, e.next)
    IN  IF ~e.ok \/ j > Len(s) THEN JsonFail
        ELSE IF s[j] = "]" THEN JsonOk([t |-> "list", v |-> Append(acc, e.val)], j + 1)
        ELSE IF s[j] = "," THEN ParseElements(s, SkipWs(s, j + 1), Append(acc, e.val))
        ELSE JsonFail

\* the members of a dict, the first key starting at position i
ParseMembers(s, i, acc) ==
    IF i > Len(s) \/ s[i] # "\"" THEN JsonFail
    ELSE LET k == ParseString(s, i)
             c == SkipWs(s, k.next)
         IN  IF ~k.ok \/ c > Len(s) \/ s[c] # ":" THEN JsonFail
             ELSE LET e == ParseValue(s, SkipWs(s, c + 1))
                      j == SkipWs(s, e.next)
                      d == DictPut(acc, k.val.v, e.val)
                  IN  IF ~e.ok \/ j > Len(s) THEN JsonFail
                      ELSE IF s[j] = "}" THEN JsonOk([t |-> "dict", v |-> d], j + 1)
                      ELSE IF s[j] = "," THEN ParseMembers(s, SkipWs(s, j + 1), d)
                      ELSE JsonFail

ParseValue(s, i) ==
    IF i > Len(s) THEN JsonFail
    ELSE IF s[i] \in Digits THEN ParseNumber(s, i)
    ELSE IF s[i] = "\"" THEN ParseString(s, i)
    ELSE IF s[i] = "[" THEN
        LET j == SkipWs(s, i + 1)
        IN  IF j <= Len(s) /\ s[j] = "]" THEN JsonOk([t |-> "list", v |-> <<>>], j + 1)
            ELSE ParseElements(s, j, <<>>)
    ELSE IF s[i] = "{" THEN
        LET j == SkipWs(s, i + 1)
        IN  IF j <= Len(s) /\ s[j] = "}" THEN JsonOk([t |-> "dict", v |-> <<>>], j + 1)
            ELSE ParseMembers(s, j, <<>>)
    ELSE JsonFail

\* response.json(): the whole content is one value, surrounded by optional whitespace
JsonLoads(s) ==
    LET r == ParseValue(s, SkipWs(s, 1))
    IN  IF r.ok /\ SkipWs(s, r.next) = Len(s) + 1 THEN r ELSE JsonFail

(***************************************************************************)
(* Response bodies offered by the transport.                               *)
(***************************************************************************)
\* '{"id":"abc"}'
BodyIdAbc ==
    <<"{", "\"", "i", "d", "\"", ":", "\"", "a", "b", "c", "\"", "}">>

\* '[1, 20]'
BodyList ==
    <<"[", "1", ",", " ", "2", "0", "]">>

\* '' (no content)
BodyEmpty ==
    <<>>

\* '[1,'
BodyTruncated ==
    <<"[", "1", ",">>

Bodies ==
    {BodyIdAbc, BodyList, BodyEmpty, BodyTruncated}

(***************************************************************************)
(* http_client.py: one call of _request (the function under @retry).       *)
(***************************************************************************)
ContentTypes == {"application/json", "application/protobuf", "application/x-google-protobuf"}

\* setup.py, version=
Version == "1.3.10"

\* system_version_string, fixed by the host
SystemVersionString == "(Linux; Python 3)"

\* response.reason of a status code
Reason(status) ==
    CASE status = 200 -> "OK"
      [] status = 304 -> "Not Modified"
      [] status = 400 -> "Bad Request"
      [] status = 401 -> "Unauthorized"
      [] status = 403 -> "Forbidden"
      [] status = 404 -> "Not Found"
      [] status = 429 -> "Too Many Requests"
      [] status = 503 -> "Service Unavailable"
      [] OTHER -> ""

\* what requests.request does: it raises (no response), or returns a response
TransportError == [raised |-> TRUE, status_code |-> 0, reason |-> "", content |-> <<>>]

Response(status, body) ==
    [raised |-> FALSE, status_code |-> status, reason |-> Reason(status), content |-> body]

ResponseOkAlways(response) == TRUE

ResponseOkInverted(response) == ~(response.status_code < 400)

ResponseOkBelow500(response) == response.status_code < 500

\* response.ok: the status is no client or server error
ResponseOk(response) == response.status_code < 400

\* the exception built by  TimeseriesRequestFailedException(response)
TimeseriesRequestFailedException(response) ==
    [exc |-> "TimeseriesRequestFailedException", status_code |-> response.status_code,
     reason |-> response.reason, content |-> response.content]

ConnectionError ==
    [exc |-> "ConnectionError", status_code |-> 0, reason |-> "", content |-> <<>>]

JSONDecodeError(content) ==
    [exc |-> "JSONDecodeError", status_code |-> 0, reason |-> "", content |-> content]

Raise(e) == [kind |-> "raise", exc |-> e]

Return(v) == [kind |-> "return", value |-> v]

WantsJsonNever(headers) == FALSE

\* not "Accept" in headers or headers["Accept"] == "application/json"
WantsJson(headers) ==
    "Accept" \notin DOMAIN headers \/ headers["Accept"] = "application/json"

\* the two return statements of _request
Decode(headers, response) ==
    IF WantsJson(headers)
    THEN LET r == JsonLoads(response.content)
         IN  IF r.ok THEN Return([type |-> "json", data |-> r.val])
             ELSE Raise(JSONDecodeError(response.content))
    ELSE Return([type |-> "bytes", data |-> response.content])

\* the body of _request, given what requests.request did
RequestOnce(headers, outcome) ==
    IF outcome.raised THEN Raise(ConnectionError)
    ELSE IF ~ResponseOk(outcome) THEN Raise(TimeseriesRequestFailedException(outcome))
    ELSE Decode(headers, outcome)

(***************************************************************************)
(* helpers.retry, the decorator of _request: the bounded retry policy.     *)
(* It wraps the call _request(request_type, url, headers, payload, params) *)
(* made by HttpClient.request, so every attempt runs with the headers      *)
(* built before the first one.                                             *)
(***************************************************************************)
\* most HTTP attempts on the generic retry budget
MaxAttempts == 3

\* base of the exponential backoff
BaseDelay == 2

\* largest jitter added to a delay
MaxJitter == 1

RECURSIVE Pow2(_)
Pow2(n) == IF n = 0 THEN 1 ELSE 2 * Pow2(n - 1)

\* the delay slept after the attempt numbered attempt (from 0)
Backoff(attempt, jitter) == BaseDelay * Pow2(attempt) + jitter

\* a transport failure, 429 or 5xx
Retryable(r) ==
    /\ r.kind = "raise"
    /\ \/ r.exc.exc = "ConnectionError"
       \/ /\ r.exc.exc = "TimeseriesRequestFailedException"
          /\ (r.exc.status_code = 429 \/ r.exc.status_code \in 500..599)

\* 401 or 403
AuthRejected(r) ==
    /\ r.kind = "raise"
    /\ r.exc.exc = "TimeseriesRequestFailedException"
    /\ r.exc.status_code \in {401, 403}

AuthenticationError(last) ==
    [exc |-> "AuthenticationError", status_code |-> last.status_code,
     reason |-> last.reason, content |-> last.content]

RetryExhaustedError(last) ==
    [exc |-> "RetryExhaustedError", status_code |-> last.status_code,
     reason |-> last.reason, content |-> last.content]

\* what the decorator does with the result r of one call, after `attempt`
\* earlier generic retries: "return", "sleep" (back off, then call again),
\* "again" (the single extra call after 401/403) or "raise"
RetryDecision(r, attempt, auth_retried) ==
    IF r.kind = "return" THEN [do |-> "return", result |-> r]
    ELSE IF Retryable(r) THEN
        IF attempt + 1 < MaxAttempts THEN [do |-> "sleep", result |-> r]
        ELSE [do |-> "raise", result |-> Raise(RetryExhaustedError(r.exc))]
    ELSE IF AuthRejected(r) THEN
        IF ~auth_retried THEN [do |-> "again", result |-> r]
        ELSE [do |-> "raise", result |-> Raise(AuthenticationError(r.exc))]
    ELSE [do |-> "raise", result |-> r]

(***************************************************************************)
(* Bounds of the request engine.                                           *)
(***************************************************************************)
\* requests made by a caller of Spec, SpecConc and SpecResolve
SoloRequests == 1
\* requests made, one after the other, by the caller of SpecSeq
MaxRequests == 2
\* last instant of the clock
MaxTime == 2
\* how long the identity backend's tokens stay valid
TokenLifetime == 1
MaxTests == 1

\* the threads that call HttpClient.request on the one client
Callers == {"t1", "t2"}

\* lengths of the token strings the identity backend hands out
TokenLens == {8, 40}

Statuses == {200, 304, 400, 401, 403, 404, 429, 503}

\* what the transport may do on one call: fail, answer 200 with any body,
\* answer 304 without content, or answer an error with or without a document
Outcomes ==
    {TransportError}
        \cup {Response(200, b) : b \in Bodies}
        \cup {Response(304, BodyEmpty)}
        \cup {Response(s, b) : s \in Statuses \ {200, 304}, b \in {BodyIdAbc, BodyEmpty}}

\* the smaller transport of SpecConc and SpecSeq
ConcOutcomes == {Response(s, BodyList) : s \in {200, 503}}

\* resource ids of the request engine's client
EngineIds ==
    { <<"h", "t", "m", "l", "-", "a", "p", "p">>,
      <<"m", "y", "-", "m", "l", "-", "w", "o", "r", "k", "s", "p", "a", "c", "e">>,
      <<"3", "2", "f", "2", "a", "9", "0", "9", "-", "8", "a", "9", "8">> }

Min(a, b) == IF a <= b THEN a ELSE b

(***************************************************************************)
(* State.                                                                  *)
(***************************************************************************)
VARIABLES
    stage,              \* "input", then "env", "client", "api" as the objects are built
    arg_resource_id,    \* TimeseriesEnvironment(resource_id=, ...)
    arg_base_url,       \* TimeseriesEnvironment(..., base_url=)
    env_resource_id,    \* TimeseriesEnvironment._resource_id
    env_base_url,       \* TimeseriesEnvironment._base_url
    client_resource_id, \* HttpClient._resource_id
    api_base_url,       \* TimeseriesAPI._base_url
    sanitized_base_url, \* SanitizedApiClient._base_url
    injected,           \* HttpClient._azure_credential: its get_token calls and cache
    cluster_marker,     \* the process runs inside an orchestrated cluster
    now,                \* the clock
    issued,             \* the identity backend's acquisitions, in order
    log,                \* what has been printed
    frame               \* per caller: the locals of its HttpClient.request call

vars ==
    <<stage, arg_resource_id, arg_base_url, env_resource_id, env_base_url,
      client_resource_id, api_base_url, sanitized_base_url, injected, cluster_marker,
      now, issued, log, frame>>

construction ==
    <<arg_resource_id, arg_base_url, env_resource_id, env_base_url,
      client_resource_id, api_base_url, sanitized_base_url, cluster_marker>>

NoHeaders == <<>>

NoToken == [id |-> 0, len |-> 0]

NoCredential == [class |-> "none", client_id |-> "none", injected |-> FALSE]

\* the injected credential before its first get_token
NewInjected == [calls |-> 0, tests |-> 0, cached |-> 0]

NoResult == [kind |-> "none"]

\* a caller outside request, having made n requests
IdleFrame(n) ==
    [pc |-> "idle", requests |-> n, accept |-> "none", scope |-> None,
     url_prefix |-> None, sent |-> {},
     credential |-> NoCredential, access_token |-> NoToken, headers |-> NoHeaders,
     acquired |-> 0, token_error |-> "none", attempt |-> 0, auth_retried |-> FALSE,
     calls |-> <<>>, delays |-> <<>>, last |-> TransportError, result |-> NoResult]

(***************************************************************************)
(* api.py: construction.                                                   *)
(***************************************************************************)
ReplacingNote == [msg |-> "Replacing 'ml' endpoint with 'management.azure.com'",
                  token |-> 0, shown |-> 0]

\* TimeseriesEnvironment.__init__
NewTimeseriesEnvironment ==
    /\ stage = "input"
    /\ env_resource_id' = SanitizeResourceId(arg_resource_id)
    /\ env_base_url' = RStripSlash(arg_base_url)
    /\ log' = IF AliasPattern(arg_resource_id) THEN log \cup {ReplacingNote} ELSE log
    /\ stage' = "env"
    /\ UNCHANGED <<arg_resource_id, arg_base_url, client_resource_id, api_base_url,
                   sanitized_base_url, injected, cluster_marker, now, issued, frame>>

\* SanitizedApiClient.__init__
NewSanitizedApiClient ==
    /\ stage = "env"
    /\ sanitized_base_url' = SanitizeResourceId(env_base_url)
    /\ log' = IF AliasPattern(env_base_url) THEN log \cup {ReplacingNote} ELSE log
    /\ stage' = "client"
    /\ UNCHANGED <<arg_resource_id, arg_base_url, env_resource_id, env_base_url,
                   client_resource_id, api_base_url, injected, cluster_marker,
                   now, issued, frame>>

\* TimeseriesAPI.__init__, with HttpClient.__init__
NewTimeseriesAPI ==
    /\ stage = "client"
    /\ client_resource_id' = env_resource_id
    /\ api_base_url' = RStripSlash(env_base_url)
    /\ stage' = "api"
    /\ UNCHANGED <<arg_resource_id, arg_base_url, env_resource_id, env_base_url,
                   sanitized_base_url, injected, cluster_marker, now, issued, log,
                   frame>>

(***************************************************************************)
(* http_client.py: HttpClient.request.                                     *)
(***************************************************************************)
InjectedCredential(marker) ==
    [class |-> "ManagedIdentityCredential", client_id |-> "none", injected |-> TRUE]

\* ManagedIdentityCredential(): the credential built for one token lookup
NewCredential(marker) ==
    [class |-> "ManagedIdentityCredential", client_id |-> "none", injected |-> FALSE]

\* the headers dict of request
BuildHeaders(access_token, accept) ==
    [h \in {"Authorization", "Content-Type", "Accept", "User-Agent"} |->
        CASE h = "Authorization" -> [scheme |-> "Bearer", token |-> access_token]
          [] h = "Content-Type" -> [scheme |-> "application/json", token |-> NoToken]
          [] h = "Accept" -> accept
          [] OTHER -> [scheme |-> "Omnia Timeseries SDK/" \o Version \o " "
                                  \o SystemVersionString, token |-> NoToken]]

\* the errors of the credential's get_token
TokenErrors == {"CredentialUnavailableError", "ClientAuthenticationError"}

OnTokenErrorStale(f, e, stale) ==
    [f EXCEPT !.pc = "send", !.access_token = stale,
              !.headers = BuildHeaders(stale, f.accept)]

\* the except branch of _get_access_token: print, then raise the error e again;
\* stale is the token handed out before, which the branch leaves alone
OnTokenError(f, e, stale) ==
    [f EXCEPT !.pc = "done",
              !.result = Raise([exc |-> e, status_code |-> 0, reason |-> "",
                                content |-> <<>>])]

\* get_token is called on credential: the injected credential counts its calls
GetTokenCalled(inj, credential) ==
    IF credential.injected THEN [inj EXCEPT !.calls = @ + 1] ELSE inj

\* an API operation sanitizes the SanitizedApiClient base url again and calls
\* request; _get_access_token picks the scope, builds a credential and calls
\* its get_token, which goes to the identity backend
Request(c, accepts, max_requests) ==
    /\ stage = "api"
    /\ frame[c].pc = "idle"
    /\ frame[c].requests < max_requests
    /\ \E accept \in accepts :
        frame' = [frame EXCEPT ![c] =
            [@ EXCEPT !.pc = "token", !.requests = @ + 1, !.accept = accept,
                      !.url_prefix = SanitizeResourceId(sanitized_base_url),
                      !.scope = AuthEndpoint(client_resource_id),
                      !.credential = NewCredential(cluster_marker)]]
    /\ injected' = GetTokenCalled(injected, NewCredential(cluster_marker))
    /\ UNCHANGED <<stage, construction, now, issued, log>>

\* get_token returns: the token's prefix is printed, the headers are built
\* and _request is entered
TokenOk(c, lens) ==
    /\ frame[c].pc = "token"
    /\ \E len \in lens :
        LET token == [id |-> Len(issued) + 1, len |-> len]
        IN  /\ issued' = Append(issued, [scope |-> frame[c].scope, by |-> c, len |-> len,
                                          expires_at |-> now + TokenLifetime])
            /\ log' = log \cup {[msg |-> "Successfully retrieved token",
                                 token |-> token.id, shown |-> Min(10, token.len)]}
            /\ frame' = [frame EXCEPT ![c] =
                   [@ EXCEPT !.pc = "send", !.access_token = token,
                             !.acquired = @ + 1,
                             !.headers = BuildHeaders(token, frame[c].accept)]]
    /\ UNCHANGED <<stage, construction, injected, now>>

\* the token most recently handed out before, if any
LastToken ==
    IF issued = <<>> THEN NoToken ELSE [id |-> Len(issued), len |-> issued[Len(issued)].len]

\* get_token raises: the error is printed and raised again
TokenFail(c) ==
    /\ frame[c].pc = "token"
    /\ log' = log \cup {[msg |-> "Error fetching token", token |-> 0, shown |-> 0]}
    /\ \E e \in TokenErrors :
        frame' = [frame EXCEPT ![c] =
            OnTokenError([@ EXCEPT !.token_error = e], e, LastToken)]
    /\ UNCHANGED <<stage, construction, injected, now, issued>>

CallHeadersReacquired(f) ==
    BuildHeaders([f.access_token EXCEPT !.id = @ + Len(f.calls)], f.accept)

\* the headers argument of a call of _request: the dict built by request
CallHeaders(f) == f.headers

\* one call of _request under the decorator
Attempt(c, outcomes) ==
    /\ frame[c].pc = "send"
    /\ \E outcome \in outcomes :
        LET f == frame[c]
            r == RequestOnce(CallHeaders(f), outcome)
            d == RetryDecision(r, f.attempt, f.auth_retried)
            g == [f EXCEPT !.calls = Append(@, outcome.status_code), !.last = outcome,
                           !.sent = @ \cup {CallHeaders(f)}]
        IN  frame' = [frame EXCEPT ![c] =
                CASE d.do = "sleep" -> [g EXCEPT !.pc = "sleep"]
                  [] d.do = "again" -> [g EXCEPT !.auth_retried = TRUE]
                  [] OTHER -> [g EXCEPT !.pc = "done", !.result = d.result]]
    /\ UNCHANGED <<stage, construction, injected, now, issued, log>>

\* the sleep between two attempts
Sleep(c) ==
    /\ frame[c].pc = "sleep"
    /\ \E jitter \in 0..MaxJitter :
        frame' = [frame EXCEPT ![c] =
            [@ EXCEPT !.pc = "send", !.attempt = @ + 1,
                      !.delays = Append(@, Backoff(frame[c].attempt, jitter))]]
    /\ UNCHANGED <<stage, construction, injected, now, issued, log>>

\* request returns to, or raises into, its caller
Leave(c) ==
    /\ frame[c].pc = "done"
    /\ frame' = [frame EXCEPT ![c] = IdleFrame(frame[c].requests)]
    /\ UNCHANGED <<stage, construction, injected, now, issued, log>>

\* the line printed by the second half of test_token_retrieval
ConnectNote(ok) ==
    [msg |-> IF ok THEN "Successfully connected to AML workspace"
                   ELSE "Failed to connect to AML workspace",
     token |-> 0, shown |-> 0]

\* test_token_retrieval, called between two requests.  First half: get_token
\* of the injected credential for the management scope, answered from the
\* credential's cache while the cached token is valid and by the identity
\* backend otherwise; the first 20 characters of the token are printed, an
\* error is printed and swallowed.  Second half: an MLClient with a credential
\* of its own looks the workspace up, which takes a token when it succeeds.
TestTokenRetrieval(c, lens) ==
    /\ stage = "api"
    /\ frame[c].pc = "idle"
    /\ injected.tests < MaxTests
    /\ \E len \in lens, got \in BOOLEAN, ok \in BOOLEAN :
        LET called == GetTokenCalled(injected, [NoCredential EXCEPT !.injected = TRUE])
            cached == called.cached # 0 /\ now < issued[called.cached].expires_at
            id == IF cached THEN called.cached ELSE Len(issued) + 1
            after == IF got /\ ~cached
                     THEN Append(issued, [scope |-> ManagementScope, by |-> "injected",
                                          len |-> len,
                                          expires_at |-> now + TokenLifetime])
                     ELSE issued
            note == IF got
                    THEN [msg |-> "Token successfully retrieved", token |-> id,
                          shown |-> Min(20, after[id].len)]
                    ELSE [msg |-> "Failure to get token", token |-> 0, shown |-> 0]
        IN  /\ injected' = [called EXCEPT !.tests = @ + 1,
                                          !.cached = IF got THEN id ELSE @]
            /\ issued' = IF ok
                         THEN Append(after, [scope |-> ManagementScope,
                                             by |-> "ml_client", len |-> len,
                                             expires_at |-> now + TokenLifetime])
                         ELSE after
            /\ log' = log \cup {note, ConnectNote(ok)}
    /\ UNCHANGED <<stage, construction, now, frame>>

\* time passes
Tick ==
    /\ now < MaxTime
    /\ now' = now + 1
    /\ UNCHANGED <<stage, construction, injected, issued, log, frame>>

(***************************************************************************)
(* Specifications.                                                         *)
(***************************************************************************)
\* a client built for one of EngineIds, all callers outside request
Init ==
    /\ stage = "api"
    /\ arg_resource_id \in EngineIds
    /\ arg_base_url = <<"u", "/">>
    /\ env_resource_id = SanitizeResourceId(arg_resource_id)
    /\ env_base_url = RStripSlash(arg_base_url)
    /\ client_resource_id = env_resource_id
    /\ api_base_url = RStripSlash(env_base_url)
    /\ sanitized_base_url = SanitizeResourceId(env_base_url)
    /\ injected = NewInjected
    /\ cluster_marker \in BOOLEAN
    /\ now = 0
    /\ issued = <<>>
    /\ log = IF AliasPattern(arg_resource_id) THEN {ReplacingNote} ELSE {}
    /\ frame = [c \in Callers |-> IdleFrame(0)]

\* one caller, the full transport
Next ==
    \/ Request("t1", ContentTypes, SoloRequests)
    \/ TokenOk("t1", TokenLens)
    \/ TokenFail("t1")
    \/ Attempt("t1", Outcomes)
    \/ Sleep("t1")
    \/ Leave("t1")

Spec == Init /\ [][Next]_vars

\* two callers on the one client
NextConc ==
    \/ \E c \in Callers :
        \/ Request(c, {"application/json"}, SoloRequests)
        \/ TokenOk(c, {40})
        \/ TokenFail(c)
        \/ Attempt(c, ConcOutcomes)
        \/ Sleep(c)
        \/ Leave(c)
    \/ Tick

\* the client of the two-caller specification
InitConc ==
    /\ Init
    /\ arg_resource_id = <<"3", "2", "f", "2", "a", "9", "0", "9", "-", "8", "a", "9", "8">>
    /\ cluster_marker = TRUE

SpecConc == InitConc /\ [][NextConc]_vars

\* one caller making several requests, one after the other, as time passes
NextSeq ==
    \/ Request("t1", {"application/json"}, MaxRequests)
    \/ TokenOk("t1", {40})
    \/ TokenFail("t1")
    \/ Attempt("t1", ConcOutcomes)
    \/ Sleep("t1")
    \/ Leave("t1")
    \/ Tick

SpecSeq == Init /\ [][NextSeq]_vars

\* one caller whose requests are answered at once, test_token_retrieval called
\* in between, as time passes
NextTest ==
    \/ Request("t1", {"application/json"}, MaxRequests)
    \/ TokenOk("t1", {40})
    \/ TokenFail("t1")
    \/ Attempt("t1", {Response(200, BodyList)})
    \/ Leave("t1")
    \/ TestTokenRetrieval("t1", TokenLens)
    \/ Tick

SpecTest == Init /\ [][NextTest]_vars

\* construction from any resource id and base url, up to the first token lookup
InitResolve ==
    /\ stage = "input"
    /\ arg_resource_id \in ResourceIds
    /\ arg_base_url \in BaseUrls
    /\ env_resource_id = None
    /\ env_base_url = None
    /\ client_resource_id = None
    /\ api_base_url = None
    /\ sanitized_base_url = None
    /\ injected = NewInjected
    /\ cluster_marker = FALSE
    /\ now = 0
    /\ issued = <<>>
    /\ log = {}
    /\ frame = [c \in Callers |-> IdleFrame(0)]

NextResolve ==
    \/ NewTimeseriesEnvironment
    \/ NewSanitizedApiClient
    \/ NewTimeseriesAPI
    \/ Request("t1", {"application/json"}, SoloRequests)

SpecResolve == InitResolve /\ [][NextResolve]_vars

(***************************************************************************)
(* Properties.                                                             *)
(***************************************************************************)
\* the request in progress of the caller of the one-caller specifications
Solo == frame["t1"]

\* every call made so far by the request f was answered with status
AllCalls(f, status) == \A i \in DOMAIN f.calls : f.calls[i] = status

StrictlyIncreasing(seq) == \A i, j \in DOMAIN seq : i < j => seq[i] < seq[j]

\* C1 (SpecResolve): for a resource id that does not match the alias pattern,
\* the scope of the token lookup is the resource id followed by "/.default".
C1_PlainIdKeepsOwnScope ==
    (Solo.pc = "token" /\ ~AliasPattern(arg_resource_id))
        => Solo.scope = arg_resource_id \o DefaultSuffix

\* C2 (SpecResolve): for a resource id that matches the alias pattern, the scope
\* of the token lookup after construction is the management scope, in which
\* "/.default" occurs exactly once.
C2_AliasGetsManagementScope ==
    (Solo.pc = "token" /\ AliasPattern(arg_resource_id))
        => /\ Solo.scope = ManagementScope
           /\ Occurrences(Solo.scope, DefaultSuffix) = 1

C2_Witness ==
    /\ Solo.pc = "token"
    /\ AliasPattern(arg_resource_id)
    /\ arg_resource_id # ManagementUrl
    /\ Solo.scope = ManagementScope

\* C3 (SpecSeq): a caller's later token lookup for a scope does not go to the
\* identity backend while the token of its earlier lookup for that scope is
\* still valid.
C3_ValidTokenIsNotAcquiredAgain ==
    \A i, j \in DOMAIN issued :
        (i < j /\ issued[i].by = issued[j].by /\ issued[i].scope = issued[j].scope)
            => ~(issued[j].expires_at - TokenLifetime < issued[i].expires_at)

\* C4 (Spec): a request whose every call was answered 401 acquired a second
\* token after the first 401, made at most two calls, none of them on the
\* retry budget, and failed with AuthenticationError.
C4_UnauthorizedRefreshesTokenOnce ==
    (Solo.pc = "done" /\ Solo.calls # <<>> /\ AllCalls(Solo, 401))
        => /\ Solo.acquired = 2
           /\ Len(Solo.calls) <= 2
           /\ Solo.attempt = 0
           /\ Solo.result.kind = "raise"
           /\ Solo.result.exc.exc = "AuthenticationError"

\* C5 (Spec): while the transport has answered only 503, fewer than MaxAttempts
\* times, the request goes on; when the next call is answered 200 the request
\* ends there with that response (its decoded body, or the decoder's error), after
\* one call more than the 503s; the delays slept in between are strictly
\* increasing, one after each 503.
C5_RecoversAfterServerErrors ==
    LET n == Len(Solo.calls)
        k == n - 1
        before == [Solo EXCEPT !.calls = SubSeq(Solo.calls, 1, k)]
    IN  /\ (n >= 1 /\ n < MaxAttempts /\ AllCalls(Solo, 503))
            => /\ Solo.pc \in {"sleep", "send"}
               /\ Len(Solo.delays) = (IF Solo.pc = "sleep" THEN n - 1 ELSE n)
               /\ StrictlyIncreasing(Solo.delays)
        /\ (n >= 1 /\ k < MaxAttempts /\ AllCalls(before, 503) /\ Solo.calls[n] = 200)
            => /\ Solo.pc = "done"
               /\ \/ Solo.result.kind = "return"
                  \/ Solo.result.kind = "raise" /\ Solo.result.exc.exc = "JSONDecodeError"
               /\ Solo.attempt = k
               /\ Len(Solo.delays) = k
               /\ StrictlyIncreasing(Solo.delays)

C5_Witness ==
    /\ Solo.pc = "done"
    /\ Solo.calls = <<503, 503, 200>>
    /\ Solo.result.kind = "return"
    /\ Len(Solo.delays) = 2

\* the latest call of the request f was answered with a status in statuses
LastStatusIn(f, statuses) ==
    f.calls # <<>> /\ ~f.last.raised /\ f.last.status_code \in statuses

\* the request f ended at its latest response, with the request-failure error
\* that carries that response's status, reason and body
EndedWithRequestFailure(f) ==
    /\ f.pc = "done"
    /\ f.result.kind = "raise"
    /\ f.result.exc.exc = "TimeseriesRequestFailedException"
    /\ f.result.exc.status_code = f.last.status_code
    /\ f.result.exc.reason = f.last.reason
    /\ f.result.exc.content = f.last.content

\* statuses that are not 2xx, not retryable (429, 5xx) and not 401 or 403
NonSuccessStatuses == (100..599) \ ((200..299) \cup {429, 401, 403} \cup (500..599))

\* statuses of 400 and above that are not retryable and not 401 or 403
ClientErrorStatuses == (400..499) \ {429, 401, 403}

C7_SingleFlightPerScope ==
    \A c1, c2 \in Callers :
        (frame[c1].pc = "token" /\ frame[c2].pc = "token"
            /\ frame[c1].scope = frame[c2].scope) => c1 = c2

\* C8 (Spec): a request that ended at a successful response gives its caller
\* the decoded JSON document when Accept is "application/json" (the decoder's
\* error when the body is no JSON document), and the response's bytes as they
\* are for every other Accept.
C8_DecodesByAccept ==
    (Solo.pc = "done" /\ Solo.calls # <<>> /\ ~Solo.last.raised
        /\ Solo.last.status_code < 400)
        => IF Solo.accept = "application/json"
           THEN LET doc == JsonLoads(Solo.last.content)
                IN  IF doc.ok
                    THEN /\ Solo.result.kind = "return"
                         /\ Solo.result.value.type = "json"
                         /\ Solo.result.value.data = doc.val
                    ELSE /\ Solo.result.kind = "raise"
                         /\ Solo.result.exc.exc = "JSONDecodeError"
           ELSE /\ Solo.result.kind = "return"
                /\ Solo.result.value.type = "bytes"
                /\ Solo.result.value.data = Solo.last.content

C8_Witness ==
    /\ Solo.pc = "done"
    /\ Solo.last = Response(200, BodyIdAbc)
    /\ Solo.accept = "application/json"
    /\ Solo.result.kind = "return"
    /\ Solo.result.value.type = "json"
    /\ Solo.result.value.data.t = "dict"
    /\ Solo.result.value.data.v[<<"i", "d">>].v = <<"a", "b", "c">>

\* C9 (SpecSeq): a request whose token lookup failed has ended with that
\* error, has made no HTTP call and carries no token, whatever tokens were
\* handed out before.
C9_TokenFailurePropagates ==
    \A c \in Callers :
        frame[c].token_error # "none"
            => /\ frame[c].pc = "done"
               /\ frame[c].result.kind = "raise"
               /\ frame[c].result.exc.exc = frame[c].token_error
               /\ frame[c].calls = <<>>
               /\ frame[c].access_token = NoToken
               /\ DOMAIN frame[c].headers = {}

C9_Witness ==
    \E c \in Callers :
        /\ frame[c].token_error # "none"
        /\ frame[c].requests = 2
        /\ \E i \in DOMAIN issued : issued[i].by = c /\ now < issued[i].expires_at

\* C10 (Spec): the credential of a token lookup names an explicit identity
\* exactly when the orchestrated-cluster marker is present.
C10_CredentialFollowsClusterMarker ==
    Solo.credential.class # "none"
        => (cluster_marker <=> Solo.credential.client_id # "none")

\* C11 (Spec): no printed line shows a token whole: what a line shows of a
\* token is shorter than the token, for a token of any length.
C11_NoFullTokenInOutput ==
    \A e \in log : e.token # 0 => e.shown < issued[e.token].len

\* the call history holds retryable outcomes only: transport failures
\* (marked 0), 429 and 5xx
RetryableStatuses == {0, 429} \cup (500..599)

OnlyRetryable(f) ==
    f.calls # <<>> /\ \A i \in DOMAIN f.calls : f.calls[i] \in RetryableStatuses

\* C12 (Spec): a request never makes more than MaxAttempts calls on the retry
\* budget and one extra call; while every call had a retryable outcome it ends
\* exactly at the call numbered MaxAttempts, with RetryExhaustedError carrying
\* the failure of that last call; a request in progress always has a next step.
C12_ExhaustsAfterMaxAttempts ==
    /\ Solo.attempt < MaxAttempts
    /\ Len(Solo.calls) <= MaxAttempts + 1
    /\ Len(Solo.delays) = Solo.attempt
    /\ OnlyRetryable(Solo)
        => /\ Len(Solo.calls) <= MaxAttempts
           /\ Solo.pc = "done" <=> Len(Solo.calls) = MaxAttempts
           /\ Solo.pc = "done"
                => /\ Solo.result.kind = "raise"
                   /\ Solo.result.exc.exc = "RetryExhaustedError"
                   /\ Solo.result.exc.status_code = Solo.last.status_code
                   /\ Solo.result.exc.reason = Solo.last.reason
                   /\ Solo.result.exc.content = Solo.last.content
    /\ Solo.pc \in {"token", "send", "sleep", "done"} => ENABLED Next

C12_Witness ==
    /\ Solo.pc = "done"
    /\ Solo.calls = <<503, 0, 429>>
    /\ Solo.result.kind = "raise"
    /\ Solo.result.exc.exc = "RetryExhaustedError"
    /\ Solo.result.exc.status_code = 429

\* the scope a resource id resolves to: the management scope for an id that
\* matches the alias pattern, the id followed by "/.default" for any other
ResolvedScope(resource_id) ==
    IF AliasPattern(resource_id) THEN ManagementScope ELSE resource_id \o DefaultSuffix

\* C13 (Spec): every call sent by request carries Authorization "Bearer" with
\* the token acquired by this request for the scope its client's resource id
\* resolves to, Content-Type "application/json", the caller's Accept, and the
\* User-Agent made of library name, version and platform.
C13_HeadersOfEveryCall ==
    \A h \in Solo.sent :
        /\ DOMAIN h = {"Authorization", "Content-Type", "Accept", "User-Agent"}
        /\ h["Authorization"].scheme = "Bearer"
        /\ h["Authorization"].token = Solo.access_token
        /\ h["Authorization"].token.id \in DOMAIN issued
        /\ issued[h["Authorization"].token.id].by = "t1"
        /\ issued[h["Authorization"].token.id].scope = ResolvedScope(client_resource_id)
        /\ h["Content-Type"].scheme = "application/json"
        /\ h["Accept"] = Solo.accept
        /\ h["User-Agent"].scheme
             = "Omnia Timeseries SDK/" \o Version \o " " \o SystemVersionString

EndsWithSlash(s) == s # <<>> /\ s[Len(s)] = "/"

\* s is t without the slashes at its end
StrippedOf(s, t) ==
    /\ ~EndsWithSlash(s)
    /\ \E k \in 0..Len(t) :
        /\ s = SubSeq(t, 1, k)
        /\ \A i \in (k + 1)..Len(t) : t[i] = "/"

\* C14 (SpecResolve): once built, the base url of the environment, of the
\* SanitizedApiClient and of the TimeseriesAPI does not end with a slash, and
\* the environment keeps the resource id and the base url its construction
\* gave it, also after an API operation has started a request.
C14_BaseUrlsWithoutTrailingSlash ==
    /\ stage \in {"env", "client", "api"}
        => /\ StrippedOf(env_base_url, arg_base_url)
           /\ env_resource_id
                = IF AliasPattern(arg_resource_id) THEN ManagementUrl
                  ELSE arg_resource_id
    /\ stage \in {"client", "api"}
        => /\ ~EndsWithSlash(sanitized_base_url)
           /\ sanitized_base_url \in {env_base_url, ManagementUrl}
    /\ stage = "api"
        => /\ ~EndsWithSlash(api_base_url)
           /\ api_base_url = env_base_url

C14_Witness ==
    /\ stage = "api"
    /\ Solo.pc = "token"
    /\ arg_base_url = <<"u", "/", "m", "l", "/", "/">>
    /\ env_base_url = <<"u", "/", "m", "l">>
    /\ api_base_url = env_base_url
    /\ sanitized_base_url = ManagementUrl

\* C15 (Spec): a request acquires its token once, before its first call, and
\* every call of the request, the retries and the extra call after 401/403
\* included, is sent with the one headers dict built from that token.
C15_TokenAcquiredOnceHeadersReused ==
    /\ Solo.acquired <= 1
    /\ Len(issued) <= Solo.requests
    /\ Solo.pc = "token" => (Solo.acquired = 0 /\ Solo.calls = <<>>)
    /\ Solo.calls # <<>>
        => /\ Solo.acquired = 1
           /\ Solo.sent = {BuildHeaders(Solo.access_token, Solo.accept)}
           /\ Solo.access_token.id \in DOMAIN issued

C15_Witness ==
    /\ Solo.pc = "done"
    /\ Solo.calls = <<401, 503, 200>>
    /\ Solo.acquired = 1
    /\ Cardinality(Solo.sent) = 1

C17_SanitizeIsIdempotent ==
    /\ stage \in {"env", "client", "api"}
        => SanitizeResourceId(env_resource_id) = env_resource_id
    /\ stage \in {"client", "api"}
        => SanitizeResourceId(sanitized_base_url) = sanitized_base_url
    /\ Solo.pc = "token" => Solo.url_prefix = sanitized_base_url

C17_Witness ==
    /\ Solo.pc = "token"
    /\ AliasPattern(arg_resource_id)
    /\ AliasPattern(env_base_url)
    /\ Solo.url_prefix = ManagementUrl

=============================================================================
